---- MODULE Spec2Model ----
(***************************************************************************)
(* CollageSplines, procedural_animation.py (Blender 3.6.1): the script's   *)
(* functions as operators on a scene record (bpy.data), and main() as a    *)
(* sequential process over that scene.                                     *)
(*                                                                         *)
(* Numbers: Python floats are modelled as exact rationals [num, den] in    *)
(* lowest terms (1.0 / n_instances is Rat(1, n_instances)), so that an     *)
(* accumulated value (curr_frame += delta_frame) and a closed form         *)
(* (i * F / n) are computed differently and compared.                      *)
(*                                                                         *)
(* Host objects: an ID datablock copy (obj.copy(), obj.data.copy()) is a   *)
(* new datablock holding the fields of the original; a field that refers   *)
(* to another datablock (the animation data's action, a material slot)     *)
(* refers to the same datablock in the copy.                               *)
(***************************************************************************)
EXTENDS Integers, Sequences, FiniteSets, TLC

VARIABLES
    objects,        \* bpy.data.objects: object name (1..) -> [data, action]
    datas,          \* bpy.data.curves: curve data id -> CurveData
    actions,        \* bpy.data.actions: action id -> [channel -> keyframes]
    collections,    \* bpy.data.collections: name -> set of object names
    materials,      \* bpy.data.materials: name -> material
    pc,             \* position of main()
    error,          \* the exception that aborted the run, "" if none
    n_instances,    \* main: n_instances
    n_frames,       \* main: n_frames
    todo,           \* objects the current for loop of main has yet to visit
    locals,         \* locals of the running grow_from_* call
    dups,           \* history: the duplicates made, in order
    before,         \* history: the scene main() started from
    mat_calls       \* history: the create_material calls made directly

vars == <<objects, datas, actions, collections, materials, pc, error,
          n_instances, n_frames, todo, locals, dups, before, mat_calls>>

-----------------------------------------------------------------------------
(* Bounds of the model. *)

MaxInstances == 2
MaxFrames == 2
MaxCalls == 3

(* Program constants. *)

MainInstances == 10
MainFrames == 300
HueRange == 360
OffsetRange == 180

-----------------------------------------------------------------------------
(* Exact rational arithmetic for the script's float computations. *)

Abs(x) == IF x < 0 THEN -x ELSE x

RECURSIVE GCD(_, _)
GCD(a, b) == IF b = 0 THEN a ELSE GCD(b, a % b)

Rat(n, d) ==
    LET g == GCD(Abs(n), d)
    IN  [num |-> n \div g, den |-> d \div g]

RatAdd(a, b) == Rat(a.num * b.den + b.num * a.den, a.den * b.den)
RatSub(a, b) == Rat(a.num * b.den - b.num * a.den, a.den * b.den)
RatLess(a, b) == a.num * b.den < b.num * a.den

-----------------------------------------------------------------------------
(* The host's data model, as far as the script touches it. *)

Channels == {"bevel_factor_start", "bevel_factor_end", "bevel_depth", "location"}

EmptyAction == [c \in Channels |-> {}]

Scene ==
    [objects |-> objects, datas |-> datas, actions |-> actions,
     collections |-> collections, materials |-> materials]

(* curve_cpy.name + "_mat": object names are unique, the suffix keeps that. *)
MatName(obj) == <<obj, "_mat">>

(* The keyframes of one animated property of a curve data block. *)
Keyframes(S, d, data_path) ==
    IF S.datas[d].action = 0 THEN {} ELSE S.actions[S.datas[d].action][data_path]

(* data.keyframe_insert(data_path, frame): keys the property's current     *)
(* value. Animation data and its action are created on first use; a key    *)
(* already at that frame takes the new value and keeps its interpolation.  *)
keyframe_insert(S, d, data_path, frame) ==
    LET S1 == IF S.datas[d].action = 0
              THEN [S EXCEPT !.actions = Append(@, EmptyAction),
                             !.datas[d].action = Len(S.actions) + 1]
              ELSE S
        a == S1.datas[d].action
        value == S1.datas[d][data_path]
        fc == S1.actions[a][data_path]
        fc2 == IF \E k \in fc : k.frame = frame
               THEN {IF k.frame = frame THEN [k EXCEPT !.value = value] ELSE k : k \in fc}
               ELSE fc \cup {[frame |-> frame, value |-> value,
                              interpolation |-> "BEZIER", easing |-> "AUTO"]}
    IN  [S1 EXCEPT !.actions[a][data_path] = fc2]

-----------------------------------------------------------------------------
(* The script's functions. *)

create_collection_if_not_exists(S, collection_name) ==
    IF collection_name \in DOMAIN S.collections
    THEN S
    ELSE [S EXCEPT !.collections = (collection_name :> {}) @@ @]

add_object_to_collection(S, base_object, collection_name) ==
    LET S1 == create_collection_if_not_exists(S, collection_name)
    IN  [S1 EXCEPT !.collections[collection_name] = @ \cup {base_object}]

(* collection_name "" stands for None; "Collection" is bpy.context.collection. *)
copy_obj(S, obj, collection_name) ==
    LET obj_cpy == Len(S.objects) + 1
        data_cpy == Len(S.datas) + 1
        \* obj_cpy = obj.copy(); obj_cpy.data = obj.data.copy()
        S1 == [S EXCEPT !.datas = Append(@, S.datas[S.objects[obj].data]),
                        !.objects = Append(@, [S.objects[obj] EXCEPT !.data = data_cpy])]
        \* obj_cpy.animation_data_clear()
        S2 == [S1 EXCEPT !.objects[obj_cpy].action = 0]
        S3 == IF collection_name = ""
              THEN [S2 EXCEPT !.collections["Collection"] = @ \cup {obj_cpy}]
              ELSE add_object_to_collection(S2, obj_cpy, collection_name)
    IN  [scene |-> S3, obj_cpy |-> obj_cpy]

animate_curve_growth(S, curve, frame_start, frame_end, growth_factor_start, growth_factor_end) ==
    LET d == S.objects[curve].data
        S1 == [S EXCEPT !.datas[d].bevel_factor_end = growth_factor_start,
                        !.datas[d].bevel_factor_start = growth_factor_start]
        S2 == keyframe_insert(S1, d, "bevel_factor_start", frame_start)
        S3 == keyframe_insert(S2, d, "bevel_factor_end", frame_start)
        S4 == [S3 EXCEPT !.datas[d].bevel_factor_end = growth_factor_end]
    IN  keyframe_insert(S4, d, "bevel_factor_end", frame_end)

(* set_animation_fcurve shaping the first fcurve only (fcurves[0]). *)
set_animation_fcurve_first(S, base_object, option) ==
    LET a == S.datas[S.objects[base_object].data].action
    IN  [S EXCEPT !.actions[a]["bevel_factor_start"] =
            {[kf EXCEPT !.interpolation = option, !.easing = "EASE_OUT"] : kf \in @}]

(* Called only on a data block that has animation data (see HasAnimation). *)
set_animation_fcurve(S, base_object, option) ==
    LET a == S.datas[S.objects[base_object].data].action
    IN  [S EXCEPT !.actions[a] =
            [c \in Channels |->
                {[kf EXCEPT !.interpolation = option, !.easing = "EASE_OUT"] : kf \in @[c]}]]

HasAnimation(S, base_object) == S.datas[S.objects[base_object].data].action # 0

NoColor == [h |-> Rat(0, 1), s |-> Rat(0, 1), v |-> Rat(0, 1)]

OutputNode == [type |-> "ShaderNodeOutputMaterial", color |-> NoColor, value |-> Rat(0, 1)]

(* The node tree the host builds when use_nodes is first switched on. *)
DefaultNodes ==
    <<[type |-> "ShaderNodeBsdfPrincipled", color |-> NoColor, value |-> Rat(0, 1)], OutputNode>>

ShaderKinds == {"diffuse", "emission", "glossy"}

ShaderNode(mat_type, color, emission_intensity, glossy_roughness) ==
    CASE mat_type = "diffuse" ->
            [type |-> "ShaderNodeBsdfDiffuse", color |-> color, value |-> Rat(0, 1)]
      [] mat_type = "emission" ->
            [type |-> "ShaderNodeEmission", color |-> color, value |-> emission_intensity]
      [] mat_type = "glossy" ->
            [type |-> "ShaderNodeBsdfGlossy", color |-> color, value |-> glossy_roughness]

(* create_material without the clearing of the existing graph. *)
create_material_keep(S, mat_id, mat_type, color, emission_intensity, glossy_roughness) ==
    LET S1 == IF mat_id \in DOMAIN S.materials
              THEN S
              ELSE [S EXCEPT !.materials =
                        (mat_id :> [use_nodes |-> FALSE, nodes |-> <<>>, links |-> {}]) @@ @]
        m1 == S1.materials[mat_id]
        m2 == IF m1.use_nodes
              THEN m1
              ELSE [use_nodes |-> TRUE, nodes |-> <<>>, links |-> {}]
        m4 == [m2 EXCEPT !.nodes = Append(Append(@, OutputNode),
                    ShaderNode(mat_type, color, emission_intensity, glossy_roughness))]
        m5 == [m4 EXCEPT !.links = @ \cup {<<Len(m4.nodes), Len(m4.nodes) - 1>>}]
    IN  [S1 EXCEPT !.materials[mat_id] = m5]

(* mat_type is one of ShaderKinds. Links are <<from node, to node>>, nodes *)
(* numbered in the order they were created.                                *)
create_material(S, mat_id, mat_type, color, emission_intensity, glossy_roughness) ==
    LET \* mat = bpy.data.materials.get(mat_id); if None: materials.new(mat_id)
        S1 == IF mat_id \in DOMAIN S.materials
              THEN S
              ELSE [S EXCEPT !.materials =
                        (mat_id :> [use_nodes |-> FALSE, nodes |-> <<>>, links |-> {}]) @@ @]
        m1 == S1.materials[mat_id]
        \* mat.use_nodes = True
        m2 == IF m1.use_nodes
              THEN m1
              ELSE [use_nodes |-> TRUE, nodes |-> DefaultNodes, links |-> {<<1, 2>>}]
        \* links.clear(); nodes.clear()
        m3 == [m2 EXCEPT !.links = {}, !.nodes = <<>>]
        \* output = nodes.new(...); shader = nodes.new(...)
        m4 == [m3 EXCEPT !.nodes = Append(Append(@, OutputNode),
                    ShaderNode(mat_type, color, emission_intensity, glossy_roughness))]
        \* links.new(shader.outputs[0], output.inputs[0])
        m5 == [m4 EXCEPT !.links = @ \cup {<<Len(m4.nodes), Len(m4.nodes) - 1>>}]
    IN  [S1 EXCEPT !.materials[mat_id] = m5]

(* generate_5_random_colors_that_fit with the hues wrapped into 0..359. *)
generate_5_random_colors_wrapped(hue, hue_op, sv) ==
    LET hues == <<hue, hue - hue_op, hue + hue_op, hue - 2 * hue_op, hue + 2 * hue_op>>
    IN  [i \in 1..5 |-> [h |-> Rat(hues[i] % 360, 360), s |-> sv[i][1], v |-> sv[i][2]]]

(* hue, hue_op: the two integer draws; sv[i]: the two draws of colour i.   *)
(* A colour holds the hsv triple the script assigns, h being hues[i]/360.0. *)
generate_5_random_colors_that_fit(hue, hue_op, sv) ==
    LET hues == <<hue, hue - hue_op, hue + hue_op, hue - 2 * hue_op, hue + 2 * hue_op>>
    IN  [i \in 1..5 |-> [h |-> Rat(hues[i], 360), s |-> sv[i][1], v |-> sv[i][2]]]

-----------------------------------------------------------------------------
(* grow_from_thicker_to_thinner and grow_from_thinner_to_thicker: the      *)
(* statements before the loop, and one pass of the loop body.              *)

NoLocals ==
    [curve |-> 0, instance_i |-> 0, growth_delta |-> Rat(0, 1),
     curr_start_growth |-> Rat(0, 1), curr_end_growth |-> Rat(0, 1),
     curr_thickness |-> Rat(0, 1), thickness_delta |-> Rat(0, 1),
     curr_frame |-> Rat(0, 1), delta_frame |-> Rat(0, 1),
     hue |-> 0, hue_op |-> 0, rand_5_colors |-> [i \in 1..5 |-> NoColor]]

(* n_instances # 0: the caller aborts on the division otherwise. *)
thicker_to_thinner_locals(curve, n, hue, hue_op, sv) ==
    [NoLocals EXCEPT !.curve = curve,
                     !.growth_delta = Rat(1, n),
                     !.curr_start_growth = Rat(0, 1),
                     !.curr_end_growth = Rat(1, 1),
                     !.curr_thickness = Rat(1, 10),
                     !.thickness_delta = Rat(3, 10),
                     !.hue = hue, !.hue_op = hue_op,
                     !.rand_5_colors = generate_5_random_colors_that_fit(hue, hue_op, sv)]

thinner_to_thicker_locals(curve, n, F, hue, hue_op, sv) ==
    [NoLocals EXCEPT !.curve = curve,
                     !.curr_frame = Rat(0, 1),
                     !.delta_frame = Rat(F, n),
                     !.growth_delta = Rat(1, n),
                     !.curr_start_growth = Rat(0, 1),
                     !.curr_thickness = Rat(1, 10),
                     !.thickness_delta = Rat(3, 10),
                     !.hue = hue, !.hue_op = hue_op,
                     !.rand_5_colors = generate_5_random_colors_that_fit(hue, hue_op, sv)]

(* "Animate thickening" and "Add material", the same in both strategies.   *)
thicken_and_paint(S, curve_cpy, L) ==
    LET d == S.objects[curve_cpy].data
        S1 == [S EXCEPT !.datas[d].bevel_depth = L.curr_thickness]
        S2 == keyframe_insert(S1, d, "bevel_depth", Rat(0, 1))
        S3 == create_material(S2, MatName(curve_cpy), "diffuse",
                              L.rand_5_colors[(L.instance_i % 2) + 1], Rat(1, 1), Rat(1, 10))
    IN  [S3 EXCEPT !.datas[d].materials = Append(@, MatName(curve_cpy))]

(* One pass of the loop of grow_from_thicker_to_thinner. ok is FALSE when  *)
(* set_animation_fcurve finds no animation data and raises.                *)
thicker_to_thinner_body(S, L, F) ==
    LET c == copy_obj(S, L.curve, "curve_cpy_thicker_to_thinner_collection")
        S1 == animate_curve_growth(c.scene, c.obj_cpy, Rat(0, 1), Rat(F, 1),
                                   L.curr_start_growth, L.curr_end_growth)
        ok == HasAnimation(S1, c.obj_cpy)
        S2 == set_animation_fcurve(S1, c.obj_cpy, "CUBIC")
        L1 == [L EXCEPT !.curr_end_growth = RatSub(@, L.growth_delta)]
        S3 == thicken_and_paint(S2, c.obj_cpy, L1)
        L2 == [L1 EXCEPT !.curr_thickness = RatAdd(@, L.thickness_delta),
                         !.instance_i = @ + 1]
    IN  IF ok
        THEN [ok |-> TRUE, scene |-> S3, locals |-> L2, obj_cpy |-> c.obj_cpy]
        ELSE [ok |-> FALSE, scene |-> S1, locals |-> L, obj_cpy |-> c.obj_cpy]

thinner_to_thicker_body(S, L) ==
    LET c == copy_obj(S, L.curve, "curve_cpy_thinner_to_thicker_collection")
        S1 == animate_curve_growth(c.scene, c.obj_cpy, L.curr_frame,
                                   RatAdd(L.curr_frame, L.delta_frame),
                                   L.curr_start_growth,
                                   RatAdd(L.curr_start_growth, L.growth_delta))
        ok == HasAnimation(S1, c.obj_cpy)
        S2 == set_animation_fcurve(S1, c.obj_cpy, "LINEAR")
        L1 == [L EXCEPT !.curr_start_growth = RatAdd(@, L.growth_delta),
                        !.curr_frame = RatAdd(@, L.delta_frame)]
        S3 == thicken_and_paint(S2, c.obj_cpy, L1)
        L2 == [L1 EXCEPT !.curr_thickness = RatAdd(@, L.thickness_delta),
                         !.instance_i = @ + 1]
    IN  IF ok
        THEN [ok |-> TRUE, scene |-> S3, locals |-> L2, obj_cpy |-> c.obj_cpy]
        ELSE [ok |-> FALSE, scene |-> S1, locals |-> L, obj_cpy |-> c.obj_cpy]

-----------------------------------------------------------------------------
(* The scenes main() is run on. *)

Curves == {1, 2}

CurveKinds == {"plain", "animated", "material"}

SrcMat(k) == <<k, "src">>

(* An animated source: keys on the curve data and on the object. *)
SrcFrame == Rat(500, 1)

SrcKey(value) ==
    [frame |-> SrcFrame, value |-> value, interpolation |-> "BEZIER", easing |-> "AUTO"]

SrcDataAction ==
    [EmptyAction EXCEPT !["bevel_depth"] = {SrcKey(Rat(1, 2))},
                        !["bevel_factor_end"] = {SrcKey(Rat(1, 1))}]

SrcObjAction == [EmptyAction EXCEPT !["location"] = {SrcKey(Rat(0, 1))}]

SrcActions(kinds, k) == IF kinds[k] = "animated" THEN <<SrcDataAction, SrcObjAction>> ELSE <<>>

SrcScene(kinds, thick, thin) ==
    LET base(k) == IF k = 1 THEN 0 ELSE Len(SrcActions(kinds, 1))
        grp(name, g) == IF g = <<>> THEN <<>> ELSE name :> g[1]
    IN  [objects |-> [k \in 1..2 |->
            [data |-> k,
             action |-> IF kinds[k] = "animated" THEN base(k) + 2 ELSE 0]],
         datas |-> [k \in 1..2 |->
            [bevel_factor_start |-> Rat(0, 1), bevel_factor_end |-> Rat(1, 1),
             bevel_depth |-> Rat(0, 1),
             action |-> IF kinds[k] = "animated" THEN base(k) + 1 ELSE 0,
             materials |-> IF kinds[k] = "material" THEN <<SrcMat(k)>> ELSE <<>>]],
         actions |-> SrcActions(kinds, 1) \o SrcActions(kinds, 2),
         collections |-> ("Collection" :> {})
                         @@ grp("start_thicker_to_thinner_collection", thick)
                         @@ grp("start_thinner_to_thicker_collection", thin),
         materials |-> [m \in {SrcMat(k) : k \in {j \in Curves : kinds[j] = "material"}} |->
            [use_nodes |-> TRUE,
             nodes |-> <<OutputNode,
                         [type |-> "ShaderNodeBsdfDiffuse", color |-> NoColor, value |-> Rat(0, 1)]>>,
             links |-> {<<2, 1>>}]]]

(* A source grouping: <<>> when the scene has none of that name, else <<members>>. *)
ThickGroupings == {<<>>} \cup {<<g>> : g \in {{}, {1}, {1, 2}}}
ThinGroupings == {<<>>} \cup {<<g>> : g \in {{}, {1}, {2}}}

InitScene(n, F) ==
    /\ \E kinds \in [Curves -> CurveKinds], thick \in ThickGroupings, thin \in ThinGroupings :
          LET S == SrcScene(kinds, thick, thin)
          IN  /\ objects = S.objects
              /\ datas = S.datas
              /\ actions = S.actions
              /\ collections = S.collections
              /\ materials = S.materials
              /\ before = S
    /\ pc = "start"
    /\ error = ""
    /\ n_instances = n
    /\ n_frames = F
    /\ todo = <<>>
    /\ locals = NoLocals
    /\ dups = <<>>
    /\ mat_calls = <<>>

Init == \E n \in 0..MaxInstances, F \in 0..MaxFrames : InitScene(n, F)

InitMain == InitScene(MainInstances, MainFrames)

-----------------------------------------------------------------------------
(* main() *)

(* The orders in which a for loop may visit the objects of a grouping. *)
Orders(g) == {q \in UNION {[1..k -> g] : k \in {Cardinality(g)}} :
                 \A i, j \in DOMAIN q : i # j => q[i] # q[j]}

HueDraws == {100, HueRange - 1}
OffsetDraws == {0, OffsetRange - 1}
SVDraws == {[i \in 1..5 |-> <<Rat(i, 8), Rat(8 - i, 8)>>]}

SetScene(S) ==
    /\ objects' = S.objects
    /\ datas' = S.datas
    /\ actions' = S.actions
    /\ collections' = S.collections
    /\ materials' = S.materials

Abort(e) ==
    /\ pc' = "aborted"
    /\ error' = e

(* for curve in bpy.data.collections[name].all_objects: the lookup. *)
EnterLoop(name, loop) ==
    IF name \in DOMAIN collections
    THEN /\ \E q \in Orders(collections[name]) : todo' = q
         /\ pc' = loop
         /\ error' = error
    ELSE /\ Abort("KeyError")
         /\ todo' = todo

MainThicker ==
    /\ pc = "start"
    /\ EnterLoop("start_thicker_to_thinner_collection", "thicker_loop")
    /\ UNCHANGED <<objects, datas, actions, collections, materials, n_instances,
                   n_frames, locals, dups, before, mat_calls>>

(* The call of grow_from_thicker_to_thinner on the next curve, up to its loop. *)
GrowThickerBegin ==
    /\ pc = "thicker_loop"
    /\ todo # <<>>
    /\ IF n_instances = 0
       THEN /\ Abort("ZeroDivisionError")
            /\ locals' = locals
       ELSE /\ \E hue \in HueDraws, hue_op \in OffsetDraws, sv \in SVDraws :
                 locals' = thicker_to_thinner_locals(Head(todo), n_instances, hue, hue_op, sv)
            /\ pc' = "thicker_body"
            /\ error' = error
    /\ UNCHANGED <<objects, datas, actions, collections, materials, n_instances,
                   n_frames, todo, dups, before, mat_calls>>

ThickerInstance ==
    /\ pc = "thicker_body"
    /\ locals.instance_i < n_instances
    /\ LET r == thicker_to_thinner_body(Scene, locals, n_frames)
       IN  /\ SetScene(r.scene)
           /\ locals' = r.locals
           /\ dups' = Append(dups, [obj |-> r.obj_cpy, source |-> locals.curve,
                                    strategy |-> "thicker_to_thinner",
                                    i |-> locals.instance_i,
                                    palette |-> locals.rand_5_colors])
           /\ IF r.ok
              THEN pc' = pc /\ error' = error
              ELSE Abort("AttributeError")
    /\ UNCHANGED <<n_instances, n_frames, todo, before, mat_calls>>

ThickerReturn ==
    /\ pc = "thicker_body"
    /\ locals.instance_i >= n_instances
    /\ pc' = "thicker_loop"
    /\ todo' = Tail(todo)
    /\ locals' = NoLocals
    /\ UNCHANGED <<objects, datas, actions, collections, materials, error, n_instances,
                   n_frames, dups, before, mat_calls>>

(* The second loop of main looking up the first source grouping again. *)
MainThinner_first_grouping ==
    /\ pc = "thicker_loop"
    /\ todo = <<>>
    /\ EnterLoop("start_thicker_to_thinner_collection", "thinner_loop")
    /\ UNCHANGED <<objects, datas, actions, collections, materials, n_instances,
                   n_frames, locals, dups, before, mat_calls>>

MainThinner ==
    /\ pc = "thicker_loop"
    /\ todo = <<>>
    /\ EnterLoop("start_thinner_to_thicker_collection", "thinner_loop")
    /\ UNCHANGED <<objects, datas, actions, collections, materials, n_instances,
                   n_frames, locals, dups, before, mat_calls>>

GrowThinnerBegin ==
    /\ pc = "thinner_loop"
    /\ todo # <<>>
    /\ IF n_instances = 0
       THEN /\ Abort("ZeroDivisionError")
            /\ locals' = locals
       ELSE /\ \E hue \in HueDraws, hue_op \in OffsetDraws, sv \in SVDraws :
                 locals' = thinner_to_thicker_locals(Head(todo), n_instances, n_frames,
                                                     hue, hue_op, sv)
            /\ pc' = "thinner_body"
            /\ error' = error
    /\ UNCHANGED <<objects, datas, actions, collections, materials, n_instances,
                   n_frames, todo, dups, before, mat_calls>>

ThinnerInstance ==
    /\ pc = "thinner_body"
    /\ locals.instance_i < n_instances
    /\ LET r == thinner_to_thicker_body(Scene, locals)
       IN  /\ SetScene(r.scene)
           /\ locals' = r.locals
           /\ dups' = Append(dups, [obj |-> r.obj_cpy, source |-> locals.curve,
                                    strategy |-> "thinner_to_thicker",
                                    i |-> locals.instance_i,
                                    palette |-> locals.rand_5_colors])
           /\ IF r.ok
              THEN pc' = pc /\ error' = error
              ELSE Abort("AttributeError")
    /\ UNCHANGED <<n_instances, n_frames, todo, before, mat_calls>>

ThinnerReturn ==
    /\ pc = "thinner_body"
    /\ locals.instance_i >= n_instances
    /\ pc' = "thinner_loop"
    /\ todo' = Tail(todo)
    /\ locals' = NoLocals
    /\ UNCHANGED <<objects, datas, actions, collections, materials, error, n_instances,
                   n_frames, dups, before, mat_calls>>

MainReturn ==
    /\ pc = "thinner_loop"
    /\ todo = <<>>
    /\ pc' = "done"
    /\ UNCHANGED <<objects, datas, actions, collections, materials, error, n_instances,
                   n_frames, todo, locals, dups, before, mat_calls>>

Next ==
    \/ MainThicker
    \/ GrowThickerBegin
    \/ ThickerInstance
    \/ ThickerReturn
    \/ MainThinner
    \/ GrowThinnerBegin
    \/ ThinnerInstance
    \/ ThinnerReturn
    \/ MainReturn

(* main() with its parameters drawn from 0..MaxInstances and 0..MaxFrames. *)
Spec == Init /\ [][Next]_vars

(* main() as written: n_instances = 10, n_frames = 300. *)
SpecMain == InitMain /\ [][Next]_vars

-----------------------------------------------------------------------------
(* create_material called directly, any number of times up to MaxCalls.    *)

MatIds == {MatName(k) : k \in 1..2}

CallColors == {[h |-> Rat(1, 2), s |-> Rat(1, 1), v |-> Rat(1, 1)],
               [h |-> Rat(0, 1), s |-> Rat(1, 2), v |-> Rat(1, 4)]}

InitMat ==
    /\ objects = <<>>
    /\ datas = <<>>
    /\ actions = <<>>
    /\ collections = ("Collection" :> {})
    /\ materials = <<>>
    /\ before = Scene
    /\ pc = "script"
    /\ error = ""
    /\ n_instances = MainInstances
    /\ n_frames = MainFrames
    /\ todo = <<>>
    /\ locals = NoLocals
    /\ dups = <<>>
    /\ mat_calls = <<>>

CreateMaterial ==
    /\ pc = "script"
    /\ Len(mat_calls) < MaxCalls
    /\ \E mat_id \in MatIds, mat_type \in ShaderKinds, color \in CallColors :
          /\ SetScene(create_material(Scene, mat_id, mat_type, color, Rat(1, 1), Rat(1, 10)))
          /\ mat_calls' = Append(mat_calls, [mat_id |-> mat_id, mat_type |-> mat_type,
                                             color |-> color])
    /\ UNCHANGED <<pc, error, n_instances, n_frames, todo, locals, dups, before>>

SpecMat == InitMat /\ [][CreateMaterial]_vars

-----------------------------------------------------------------------------
(* Vocabulary of the properties. *)

Range(q) == {q[k] : k \in DOMAIN q}

Frames(fc) == {kf.frame : kf \in fc}

ValueAt(fc, frame) == (CHOOSE kf \in fc : kf.frame = frame).value

(* The keyframes of a duplicate's curve data on one channel. *)
DupKeys(d, data_path) == Keyframes(Scene, objects[d.obj].data, data_path)

DupsOf(strategy, c) ==
    {k \in DOMAIN dups : dups[k].strategy = strategy /\ dups[k].source = c}

Members(S, name) == IF name \in DOMAIN S.collections THEN S.collections[name] ELSE {}

(* The call of the strategy on source curve c has returned. *)
CallReturned(strategy, c) ==
    IF strategy = "thicker_to_thinner"
    THEN /\ c \in Members(before, "start_thicker_to_thinner_collection")
         /\ \/ pc = "thicker_loop" /\ c \notin Range(todo)
            \/ pc \in {"thinner_loop", "thinner_body", "done"}
            \/ pc = "aborted" /\ error = "KeyError"
    ELSE /\ c \in Members(before, "start_thinner_to_thicker_collection")
         /\ \/ pc = "thinner_loop" /\ c \notin Range(todo)
            \/ pc = "done"

(* A returned call has made exactly n_instances duplicates, numbered 0..n-1. *)
ExactlyN(strategy) ==
    \A c \in Curves :
        CallReturned(strategy, c) =>
            /\ Cardinality(DupsOf(strategy, c)) = n_instances
            /\ {dups[k].i : k \in DupsOf(strategy, c)} = 0..(n_instances - 1)

Zero == Rat(0, 1)

-----------------------------------------------------------------------------
(* C1: one call of grow_from_thicker_to_thinner makes exactly n_instances  *)
(* duplicates, and the i-th duplicate's end-fraction keyframes are at      *)
(* frame 0 and frame n_frames, the value keyed at n_frames being 1 - i/n.  *)
C1_ThickerEndFractions ==
    /\ ExactlyN("thicker_to_thinner")
    /\ \A k \in DOMAIN dups :
          dups[k].strategy = "thicker_to_thinner" =>
              LET fc == DupKeys(dups[k], "bevel_factor_end")
              IN  /\ Frames(fc) = {Zero, Rat(n_frames, 1)}
                  /\ ValueAt(fc, Rat(n_frames, 1))
                        = Rat(n_instances - dups[k].i, n_instances)

(* C2: one call of grow_from_thinner_to_thicker makes exactly n_instances  *)
(* duplicates whose growth keyframes lie at i*F/n and (i+1)*F/n; the first *)
(* window starts at 0, the last ends at F, and each window ends where the  *)
(* next one starts.                                                        *)
C2_ThinnerWindows ==
    /\ ExactlyN("thinner_to_thicker")
    /\ \A k \in DOMAIN dups :
          dups[k].strategy = "thinner_to_thicker" =>
              LET d == dups[k]
                  lo == Rat(d.i * n_frames, n_instances)
                  hi == Rat((d.i + 1) * n_frames, n_instances)
              IN  /\ Frames(DupKeys(d, "bevel_factor_start")) = {lo}
                  /\ Frames(DupKeys(d, "bevel_factor_end")) = {lo, hi}
                  /\ d.i = 0 => lo = Zero
                  /\ d.i = n_instances - 1 => hi = Rat(n_frames, 1)
                  /\ \A j \in DOMAIN dups :
                        (/\ dups[j].strategy = d.strategy
                         /\ dups[j].source = d.source
                         /\ dups[j].i = d.i + 1)
                        => /\ hi \in Frames(DupKeys(dups[j], "bevel_factor_start"))
                           /\ \A f \in Frames(DupKeys(dups[j], "bevel_factor_end")) :
                                 ~RatLess(f, hi)

(* C3: in both strategies the i-th duplicate has exactly one thickness     *)
(* keyframe, at frame 0, of value 0.1 + 0.3*i (increasing, never capped).  *)
C3_Thickness ==
    \A k \in DOMAIN dups :
        /\ Frames(DupKeys(dups[k], "bevel_depth")) = {Zero}
        /\ Cardinality(DupKeys(dups[k], "bevel_depth")) = 1
        /\ ValueAt(DupKeys(dups[k], "bevel_depth"), Zero) = Rat(1 + 3 * dups[k].i, 10)
        /\ \A j \in DOMAIN dups :
              (dups[j].source = dups[k].source /\ dups[j].strategy = dups[k].strategy
               /\ dups[j].i < dups[k].i)
              => RatLess(ValueAt(DupKeys(dups[j], "bevel_depth"), Zero),
                         ValueAt(DupKeys(dups[k], "bevel_depth"), Zero))


ThickName == "start_thicker_to_thinner_collection"
ThinName == "start_thinner_to_thicker_collection"

Derived(strategy) ==
    IF strategy = "thicker_to_thinner"
    THEN "curve_cpy_thicker_to_thinner_collection"
    ELSE "curve_cpy_thinner_to_thicker_collection"

Strategies == {"thicker_to_thinner", "thinner_to_thicker"}

(* C4: when a run of main (10 instances, 300 frames) has ended, for every  *)
(* source curve of the two source groupings it has made exactly 10 new     *)
(* objects,                                                                *)
(* registered in the derived grouping of the strategy, each with keyframe  *)
(* data and exactly one material; 10 per source curve in total (20 for two *)
(* curves), the source groupings being left as they were.                  *)
C4_MainRun ==
    /\ n_instances = MainInstances /\ n_frames = MainFrames
    /\ pc \in {"start", "thicker_loop", "thicker_body", "thinner_loop", "thinner_body",
               "done", "aborted"}
    /\ pc = "done" =>
          /\ \A st \in Strategies : ExactlyN(st)
          /\ \A k \in DOMAIN dups :
                /\ Derived(dups[k].strategy) \in DOMAIN collections
                /\ dups[k].obj \in collections[Derived(dups[k].strategy)]
                /\ HasAnimation(Scene, dups[k].obj)
                /\ \E ch \in Channels : DupKeys(dups[k], ch) # {}
                /\ Len(datas[objects[dups[k].obj].data].materials) = 1
          /\ Len(objects) - Len(before.objects)
                = MainInstances * (Cardinality(Members(before, ThickName))
                                   + Cardinality(Members(before, ThinName)))
          /\ Members(Scene, ThickName) = Members(before, ThickName)
          /\ Members(Scene, ThinName) = Members(before, ThinName)

Mode(strategy) == IF strategy = "thicker_to_thinner" THEN "CUBIC" ELSE "LINEAR"

Shaped(d, paths) ==
    \A ch \in paths : \A kf \in DupKeys(d, ch) :
        kf.interpolation = Mode(d.strategy) /\ kf.easing = "EASE_OUT"

(* C5: once a strategy has finished a duplicate, every keyframe of its     *)
(* start-fraction, end-fraction and thickness channels has the strategy's  *)
(* interpolation mode and easing EASE_OUT.                                 *)
C5_AllKeysShaped ==
    dups # <<>> =>
        Shaped(dups[Len(dups)], {"bevel_factor_start", "bevel_factor_end", "bevel_depth"})

(* C5, amended: at the end of the loop pass that made a duplicate, every   *)
(* keyframe of its start-fraction and end-fraction channels has the        *)
(* strategy's interpolation mode and easing EASE_OUT (the thickness key is *)
(* inserted after the shaping).                                            *)
C5_GrowthKeysShaped ==
    dups # <<>> =>
        /\ DupKeys(dups[Len(dups)], "bevel_factor_start") # {}
        /\ DupKeys(dups[Len(dups)], "bevel_factor_end") # {}
        /\ Shaped(dups[Len(dups)], {"bevel_factor_start", "bevel_factor_end"})

C5_Witness ==
    /\ dups # <<>>
    /\ dups[Len(dups)].strategy = "thinner_to_thicker"
    /\ Cardinality(DupKeys(dups[Len(dups)], "bevel_factor_end")) = 2
    /\ \E kf \in DupKeys(dups[Len(dups)], "bevel_depth") : kf.interpolation = "BEZIER"

(* C6: no duplicate's curve data is the data block of the source or of a   *)
(* sibling, and the source objects and their curve data (fractions, depth, *)
(* keyframes, materials) are as they were before the run.                  *)
C6_DeepCopy ==
    /\ \A k \in DOMAIN dups :
          /\ objects[dups[k].obj].data \notin {objects[c].data : c \in Curves}
          /\ \A j \in DOMAIN dups :
                j # k => objects[dups[j].obj].data # objects[dups[k].obj].data
    /\ \A c \in Curves :
          /\ objects[c] = before.objects[c]
          /\ datas[c] = before.datas[c]
          /\ \A ch \in Channels : Keyframes(Scene, c, ch) = Keyframes(before, c, ch)
    /\ \A m \in DOMAIN before.materials : materials[m] = before.materials[m]

(* C7: a duplicate has no animation data of its source: its object has     *)
(* none, and no keyframe of the source's curve data is on its curve data.  *)
C7_NoInheritedAnimation ==
    \A k \in DOMAIN dups :
        /\ objects[dups[k].obj].action = 0
        /\ \A ch \in Channels :
              Frames(DupKeys(dups[k], ch))
                \cap Frames(Keyframes(before, before.objects[dups[k].source].data, ch)) = {}

NodeType(mat_type) ==
    CASE mat_type = "diffuse" -> "ShaderNodeBsdfDiffuse"
      [] mat_type = "emission" -> "ShaderNodeEmission"
      [] mat_type = "glossy" -> "ShaderNodeBsdfGlossy"

CallsOf(mat_id) == {k \in DOMAIN mat_calls : mat_calls[k].mat_id = mat_id}

LastCall(mat_id) == mat_calls[CHOOSE k \in CallsOf(mat_id) : \A j \in CallsOf(mat_id) : j <= k]

NodesOf(m, types) == {k \in DOMAIN m.nodes : m.nodes[k].type \in types}

(* C8: calling create_material again with an identifier creates no second  *)
(* material, and leaves the material with exactly one shader node, of the  *)
(* kind of the last call, one output node and one link between the two.    *)
C8_Idempotent ==
    /\ DOMAIN materials = {mat_calls[k].mat_id : k \in DOMAIN mat_calls}
    /\ \A mat_id \in MatIds :
          Cardinality(CallsOf(mat_id)) >= 2 =>
              LET m == materials[mat_id]
                  out == NodesOf(m, {"ShaderNodeOutputMaterial"})
                  sh == NodesOf(m, {NodeType(LastCall(mat_id).mat_type)})
              IN  /\ Len(m.nodes) = 2
                  /\ Cardinality(out) = 1
                  /\ Cardinality(sh) = 1
                  /\ m.links = {<<a, b>> : a \in sh, b \in out}

C8_Witness ==
    \E mat_id \in MatIds :
        \E j, k \in CallsOf(mat_id) :
            /\ j < k
            /\ mat_calls[j].mat_type = "emission"
            /\ k = Len(mat_calls)
            /\ mat_calls[k].mat_type = "glossy"

(* C9: a run that aborts leaves the scene as it found it. *)
C9_AllOrNothing == pc = "aborted" => Scene = before

(* C9, amended: main has no rollback. An abort on n_instances = 0 or on a  *)
(* missing first source grouping happens before anything is made and       *)
(* leaves the scene unchanged; an abort on a missing second source         *)
(* grouping leaves the n_instances duplicates of every curve of the first  *)
(* grouping in the scene, in their derived grouping, each with its         *)
(* material. Keyframe shaping never aborts the run, and a run with a       *)
(* missing source grouping never completes.                                *)
C9_NoRollback ==
    /\ pc = "aborted" =>
          /\ error \in {"KeyError", "ZeroDivisionError"}
          /\ error = "ZeroDivisionError" => n_instances = 0 /\ Scene = before
          /\ (error = "KeyError" /\ ThickName \notin DOMAIN before.collections) =>
                Scene = before
          /\ (error = "KeyError" /\ ThickName \in DOMAIN before.collections) =>
                /\ ThinName \notin DOMAIN before.collections
                /\ Len(objects) = Len(before.objects)
                      + n_instances * Cardinality(Members(before, ThickName))
                /\ \A k \in DOMAIN dups :
                      /\ dups[k].obj \in Members(Scene, Derived("thicker_to_thinner"))
                      /\ MatName(dups[k].obj) \in DOMAIN materials
    /\ pc = "done" =>
          /\ ThickName \in DOMAIN before.collections
          /\ ThinName \in DOMAIN before.collections

C9_Witness ==
    /\ pc = "aborted"
    /\ error = "KeyError"
    /\ Len(objects) = Len(before.objects) + 4
    /\ Cardinality(DOMAIN materials) > Cardinality(DOMAIN before.materials)

(* C10: the palette of a call holds exactly 5 colours whose hues are, in   *)
(* order, H, H-O, H+O, H-2O, H+2O (as fractions of 360, not clamped), for  *)
(* the drawn H in 0..359 and O in 0..179, and the material of every        *)
(* duplicate has one of the 5 colours of the palette of its call.          *)
C10_Palette ==
    /\ pc \in {"thicker_body", "thinner_body"} =>
          LET H == locals.hue
              O == locals.hue_op
              p == locals.rand_5_colors
          IN  /\ H \in 0..(HueRange - 1) /\ O \in 0..(OffsetRange - 1)
              /\ DOMAIN p = 1..5
              /\ p[1].h = Rat(H, 360)
              /\ p[2].h = Rat(H - O, 360)
              /\ p[3].h = Rat(H + O, 360)
              /\ p[4].h = Rat(H - 2 * O, 360)
              /\ p[5].h = Rat(H + 2 * O, 360)
    /\ \A k \in DOMAIN dups :
          /\ MatName(dups[k].obj) \in DOMAIN materials
          /\ \E x \in NodesOf(materials[MatName(dups[k].obj)], {"ShaderNodeBsdfDiffuse"}) :
                materials[MatName(dups[k].obj)].nodes[x].color \in Range(dups[k].palette)

C10_Witness ==
    /\ pc = "thinner_body"
    /\ locals.hue - 2 * locals.hue_op < 0
    /\ locals.hue + 2 * locals.hue_op > 360
    /\ locals.instance_i = 2

-----------------------------------------------------------------------------
(* The properties that fail only on source curves whose curve data is      *)
(* animated, restricted to the scenes without such a source: they hold.    *)

PlainData == \A c \in Curves : before.datas[c].action = 0

OnPlainData_ThickerEndFractions == PlainData => C1_ThickerEndFractions
OnPlainData_ThinnerWindows == PlainData => C2_ThinnerWindows
OnPlainData_Thickness == PlainData => C3_Thickness
OnPlainData_DeepCopy == PlainData => C6_DeepCopy
OnPlainData_NoInheritedAnimation == PlainData => C7_NoInheritedAnimation

====
